---- MODULE Spec2Model ----
(***************************************************************************)
(* CardMerger (src/CardMerger/merger.py): page layout, grouping of cards   *)
(* by size and composition of the output sheets.                           *)
(*                                                                         *)
(* Lengths.  The code computes with decimal.Decimal.  The model draws the  *)
(* scale from the multiples of 1/ScaleDen and card sizes from whole        *)
(* points, so every length the code computes is a multiple of              *)
(* 1/(2*ScaleDen) point (the only division that is not truncated to an     *)
(* integer is "/ 2").  Lengths that the code holds as Decimal are kept in  *)
(* that unit ("units", Unit per point); Decimal arithmetic is exact there. *)
(***************************************************************************)
EXTENDS Integers, Sequences, FiniteSets

VARIABLES
    paper_size,          \* CardMerger.paper_size: a member name of PaperSize
    card_scale,          \* CardMerger.card_scale, as a numerator over ScaleDen
    card_dict,           \* CardMerger.card_dict: name -> CardInfo
    pc,                  \* position of the running call
    original_card_size,  \* argument of a direct determine_page_layout call
    page_layout,         \* result of the last determine_page_layout call
    list_ext,            \* extension of path_to_card_list
    list_exists,         \* os.path.isfile(path_to_card_list)
    card_set,            \* names read from the card list
    known_cards,         \* card_set & card_dict.keys()
    unknown_cards,       \* card_set - card_dict.keys()
    grouped_cards,       \* result of group_cards_by_sizes
    group_no,            \* 1-based index of the group being composed
    card_ct,             \* enumerate() counter inside the group
    current_page,        \* index in pages of current_page (0: unbound)
    pages,               \* pdf_writer's pages
    group_layouts,       \* history: layout computed for each group so far
    out_file             \* the file at pdf_name

vars == <<paper_size, card_scale, card_dict, pc, original_card_size,
          page_layout, list_ext, list_exists, card_set, known_cards,
          unknown_cards, grouped_cards, group_no, card_ct, current_page,
          pages, group_layouts, out_file>>

(***************************************************************************)
(* Bounds                                                                  *)
(***************************************************************************)
ScaleDen == 4
MinScaleNum == 2
MaxScaleNum == 5
DimStep == 20
MaxDimK == 56
MaxRequested == 5

Unit == 2 * ScaleDen
Scales == MinScaleNum..MaxScaleNum
CardDims == {DimStep * k : k \in 1..MaxDimK} \cup {200, 270, 280, 351}

(***************************************************************************)
(* Constants of merger.py                                                  *)
(***************************************************************************)
MIN_LEFT_MARGIN == 18
MIN_RIGHT_MARGIN == 18
MIN_TOP_MARGIN == 18
MIN_BOTTOM_MARGIN == 36

PaperSize ==
    [LETTER |-> <<612, 792>>, LEGAL |-> <<612, 1008>>, A4 |-> <<595, 842>>]

PaperNames == {"LETTER", "LEGAL", "A4"}

\* a Decimal holding a whole number of points, in units
Pt(n) == n * Unit

\* int(a / b) for b > 0: truncation toward zero
IntDiv(a, b) == IF a >= 0 THEN a \div b ELSE -((-a) \div b)

(***************************************************************************)
(* determine_page_layout                                                   *)
(***************************************************************************)
\* self.card_scale * original_card_size[i], in units
Scaled(scale, points) == scale * points * 2

card_cols_portrait(paper, scaled_card_width) ==
    IntDiv(Pt(paper[1] - MIN_LEFT_MARGIN - MIN_RIGHT_MARGIN), scaled_card_width)

card_rows_portrait(paper, scaled_card_height) ==
    IntDiv(Pt(paper[2] - MIN_TOP_MARGIN - MIN_BOTTOM_MARGIN), scaled_card_height)

card_rows_landscape(paper, scaled_card_height) ==
    IntDiv(Pt(paper[1] - MIN_LEFT_MARGIN - MIN_RIGHT_MARGIN), scaled_card_height)

\* a variant of card_cols_landscape that subtracts the left and right minimums
card_cols_landscape_short(paper, scaled_card_width) ==
    IntDiv(Pt(paper[2] - MIN_LEFT_MARGIN - MIN_RIGHT_MARGIN), scaled_card_width)

card_cols_landscape(paper, scaled_card_width) ==
    IntDiv(Pt(paper[2] - MIN_TOP_MARGIN - MIN_BOTTOM_MARGIN), scaled_card_width)

\* a variant of use_landscape that gives ties to landscape
use_landscape_ties(landscape_count, portrait_count) ==
    landscape_count >= portrait_count

use_landscape(landscape_count, portrait_count) ==
    landscape_count > portrait_count

\* a variant of landscape_margins that anchors left_margin at MIN_BOTTOM_MARGIN
landscape_margins_top_anchor(paper, w, h, cols, rows) ==
    [ bottom_margin |-> Pt(MIN_LEFT_MARGIN)
          + (Pt(paper[1] - MIN_LEFT_MARGIN - MIN_RIGHT_MARGIN) - h * rows) \div 2,
      left_margin |-> Pt(MIN_BOTTOM_MARGIN)
          + (Pt(paper[2] - MIN_TOP_MARGIN - MIN_BOTTOM_MARGIN) - w * cols) \div 2 ]

\* the landscape branch: margins on the rotated sheet
landscape_margins(paper, w, h, cols, rows) ==
    LET excess_vertical_margin ==
            Pt(paper[1] - MIN_LEFT_MARGIN - MIN_RIGHT_MARGIN) - h * rows
        excess_horizontal_margin ==
            Pt(paper[2] - MIN_TOP_MARGIN - MIN_BOTTOM_MARGIN) - w * cols
    IN  [ bottom_margin |-> Pt(MIN_LEFT_MARGIN) + excess_vertical_margin \div 2,
          left_margin |-> Pt(MIN_TOP_MARGIN) + excess_horizontal_margin \div 2 ]

\* a variant of portrait_margins that anchors bottom_margin at MIN_TOP_MARGIN
portrait_margins_top_anchor(paper, w, h, cols, rows) ==
    [ left_margin |-> Pt(MIN_LEFT_MARGIN)
          + (Pt(paper[1] - MIN_LEFT_MARGIN - MIN_RIGHT_MARGIN) - w * cols) \div 2,
      bottom_margin |-> Pt(MIN_TOP_MARGIN)
          + (Pt(paper[2] - MIN_TOP_MARGIN - MIN_BOTTOM_MARGIN) - h * rows) \div 2 ]

\* the portrait branch
portrait_margins(paper, w, h, cols, rows) ==
    LET excess_horizontal_margin ==
            Pt(paper[1] - MIN_LEFT_MARGIN - MIN_RIGHT_MARGIN) - w * cols
        excess_vertical_margin ==
            Pt(paper[2] - MIN_TOP_MARGIN - MIN_BOTTOM_MARGIN) - h * rows
    IN  [ left_margin |-> Pt(MIN_LEFT_MARGIN) + excess_horizontal_margin \div 2,
          bottom_margin |-> Pt(MIN_BOTTOM_MARGIN) + excess_vertical_margin \div 2 ]

\* the value None
None == [valid |-> FALSE]

\* paper: the name of a PaperSize member; scale: numerator over ScaleDen;
\* size: <<W, H>> in points.  Returns a PageLayout (valid = TRUE) or None.
determine_page_layout(paper, scale, size) ==
    LET value == PaperSize[paper]
        scaled_card_width == Scaled(scale, size[1])
        scaled_card_height == Scaled(scale, size[2])
        cols_p == card_cols_portrait(value, scaled_card_width)
        rows_p == card_rows_portrait(value, scaled_card_height)
        rows_l == card_rows_landscape(value, scaled_card_height)
        cols_l == card_cols_landscape(value, scaled_card_width)
        landscape == use_landscape(cols_l * rows_l, cols_p * rows_p)
        card_cols == IF landscape THEN cols_l ELSE cols_p
        card_rows == IF landscape THEN rows_l ELSE rows_p
        margins == IF landscape
                   THEN landscape_margins(value, scaled_card_width,
                                          scaled_card_height, card_cols, card_rows)
                   ELSE portrait_margins(value, scaled_card_width,
                                         scaled_card_height, card_cols, card_rows)
    IN  IF card_cols < 1 \/ card_rows < 1
        THEN None
        ELSE [ valid |-> TRUE,
               paper_size |-> IF landscape THEN <<value[2], value[1]>> ELSE value,
               cards_per_page |-> card_rows * card_cols,
               card_rows |-> card_rows,
               card_cols |-> card_cols,
               card_height |-> scaled_card_height,
               card_width |-> scaled_card_width,
               card_scale |-> scale,
               left_margin |-> margins.left_margin,
               bottom_margin |-> margins.bottom_margin ]

(***************************************************************************)
(* The catalog: card_dict after __init__, and the pages of the card files  *)
(***************************************************************************)
NoAnnots == <<>>

Annot(has_rect, rect, open) ==
    [has_rect |-> has_rect, rect |-> rect, open |-> open]

\* pdf.PdfFileReader(open(path, "rb")).getPage(0): the annotations of the
\* card's page ("/Annots" absent: the empty sequence).  Rectangles in units;
\* open is the "/Open" entry: "true", "false" or "absent".
CardPageAnnots(path) ==
    CASE path = "a1.pdf" ->
           << Annot(TRUE, <<Pt(10), Pt(10), Pt(50), Pt(30)>>, "true") >>
      [] path = "a2.pdf" ->
           << Annot(FALSE, <<0, 0, 0, 0>>, "true"),
              Annot(TRUE, <<Pt(0), Pt(0), Pt(270), Pt(351)>>, "absent") >>
      [] path = "b1.pdf" ->
           << Annot(TRUE, <<Pt(20), Pt(30), Pt(100), Pt(60)>>, "false") >>
      [] OTHER -> NoAnnots

CardInfo(path, size) == [path_to_pdf |-> path, card_size |-> size]

\* a directory of single-page card files, as create_card_pdf_dict reads it
Catalog ==
    [ a1 |-> CardInfo("a1.pdf", <<270, 351>>),
      a2 |-> CardInfo("a2.pdf", <<270, 351>>),
      a3 |-> CardInfo("a3.pdf", <<270, 351>>),
      a4 |-> CardInfo("a4.pdf", <<270, 351>>),
      a5 |-> CardInfo("a5.pdf", <<270, 351>>),
      b1 |-> CardInfo("b1.pdf", <<270, 500>>),
      h1 |-> CardInfo("h1.pdf", <<700, 1100>>) ]

\* names a card list may hold: the catalog's and one that is in no catalog
RequestedNames == DOMAIN Catalog \cup {"x1"}

\* the card lists: at most MaxRequested distinct names
CardSets == {S \in SUBSET RequestedNames : Cardinality(S) <= MaxRequested}

(***************************************************************************)
(* Iteration orders of Python sets: any order of the elements              *)
(***************************************************************************)
RECURSIVE Orders(_)
Orders(S) ==
    IF S = {} THEN {<<>>}
    ELSE UNION {{<<x>> \o t : t \in Orders(S \ {x})} : x \in S}

Range(s) == {s[i] : i \in 1..Len(s)}

(***************************************************************************)
(* group_cards_by_sizes                                                    *)
(***************************************************************************)
\* a variant of same_size that compares the widths only
same_width(card_info, size) == card_info.card_size[1] = size[1]

same_size(card_info, size) == card_info.card_size = size

\* cards: the names in the iteration order of the collection;
\* size_order: the set card_sizes in its iteration order
group_cards_by_sizes(dict, cards, size_order) ==
    LET card_infos == [i \in 1..Len(cards) |-> dict[cards[i]]]
    IN  [k \in 1..Len(size_order) |->
            SelectSeq(card_infos, LAMBDA ci : same_size(ci, size_order[k]))]

card_sizes(dict, cards) == {dict[c].card_size : c \in cards}

(***************************************************************************)
(* create_cards_file                                                       *)
(***************************************************************************)
is_txt(ext) == ext = ".txt"

\* a variant of no_known_cards that never reports an empty set
never_empty(known) == FALSE

no_known_cards(known) == Cardinality(known) = 0

page_position(ct, layout) == ct % layout.cards_per_page

\* a variant of row_no that divides by the number of rows
row_no_by_rows(position, layout) == position \div layout.card_rows

row_no(position, layout) == position \div layout.card_cols

col_no(position, layout) == position % layout.card_cols

\* a variant of needs_blank_page that tests the counter, not the position
first_card_only(ct, layout) == ct = 0

needs_blank_page(ct, layout) == page_position(ct, layout) = 0

BlankPage(layout) ==
    [paper_size |-> layout.paper_size, cells |-> <<>>, annots |-> <<>>]

translation_x(layout, col) == layout.left_margin + col * layout.card_width

translation_y(layout, row) == layout.bottom_margin + row * layout.card_height

\* a variant of fix_annotation that moves all four coordinates by tx
fix_annotation_x_only(annot, tx, ty) ==
    IF annot.has_rect
    THEN [annot EXCEPT !.open = "false",
                       !.rect = <<annot.rect[1] + tx, annot.rect[2] + tx,
                                  annot.rect[3] + tx, annot.rect[4] + tx>>]
    ELSE annot

\* the annotation fix-up of one annotation of the card's page
fix_annotation(annot, tx, ty) ==
    IF annot.has_rect
    THEN [annot EXCEPT !.open = "false",
                       !.rect = <<annot.rect[1] + tx, annot.rect[2] + ty,
                                  annot.rect[3] + tx, annot.rect[4] + ty>>]
    ELSE annot

\* current_page.mergeRotatedScaledTranslatedPage(card_page, ...): the card
\* is drawn on the page and the card page's annotations are appended to the
\* page's.  src (the card file and the annotation's position in it) is
\* history, kept to state properties.
merge_page(page, cell, card_annots) ==
    [page EXCEPT
        !.cells = Append(@, cell),
        !.annots = @ \o [k \in 1..Len(card_annots) |->
                            [annot |-> card_annots[k],
                             src |-> <<cell.card, k>>]]]

Untouched == [written |-> FALSE, pages |-> <<>>]

Init ==
    /\ paper_size \in PaperNames
    /\ card_scale \in Scales
    /\ card_dict = Catalog
    /\ pc = "start"
    /\ original_card_size = <<0, 0>>
    /\ page_layout = None
    /\ \E in \in {<<".txt", TRUE>>, <<".txt", FALSE>>, <<".pdf", TRUE>>} :
          list_ext = in[1] /\ list_exists = in[2]
    /\ card_set \in CardSets
    /\ known_cards = {}
    /\ unknown_cards = {}
    /\ grouped_cards = <<>>
    /\ group_no = 0
    /\ card_ct = 0
    /\ current_page = 0
    /\ pages = <<>>
    /\ group_layouts = <<>>
    /\ out_file = Untouched

\* lines 287-317: the checks, the card list, the known and unknown cards and
\* the grouping
ReadCardList ==
    /\ pc = "start"
    /\ IF ~is_txt(list_ext) \/ ~list_exists
       THEN /\ pc' = "quit"
            /\ UNCHANGED <<known_cards, unknown_cards, grouped_cards, group_no>>
       ELSE LET known == card_set \cap DOMAIN card_dict
                unknown == card_set \ DOMAIN card_dict
            IN  /\ known_cards' = known
                /\ unknown_cards' = unknown
                /\ IF no_known_cards(known)
                   THEN /\ pc' = "quit"
                        /\ UNCHANGED <<grouped_cards, group_no>>
                   ELSE /\ \E cards \in Orders(known) :
                           \E size_order \in Orders(card_sizes(card_dict, known)) :
                              grouped_cards' =
                                 group_cards_by_sizes(card_dict, cards, size_order)
                        /\ group_no' = 1
                        /\ pc' = "compose"
    /\ UNCHANGED <<paper_size, card_scale, card_dict, original_card_size,
                   page_layout, list_ext, list_exists, card_set, card_ct,
                   current_page, pages, group_layouts, out_file>>

\* lines 321-323: the next group and its layout
NextGroup ==
    /\ pc = "compose"
    /\ group_no <= Len(grouped_cards)
    /\ LET card_group == grouped_cards[group_no]
           layout == determine_page_layout(paper_size, card_scale,
                                           card_group[1].card_size)
       IN  /\ page_layout' = layout
           /\ group_layouts' = Append(group_layouts, layout)
    /\ card_ct' = 0
    /\ pc' = "place"
    /\ UNCHANGED <<paper_size, card_scale, card_dict, original_card_size,
                   list_ext, list_exists, card_set, known_cards, unknown_cards,
                   grouped_cards, group_no, current_page, pages, out_file>>

\* line 326 with page_layout None: AttributeError leaves create_cards_file
RaiseAttributeError ==
    /\ pc = "place"
    /\ ~page_layout.valid
    /\ pc' = "crashed"
    /\ UNCHANGED <<paper_size, card_scale, card_dict, original_card_size,
                   page_layout, list_ext, list_exists, card_set, known_cards,
                   unknown_cards, grouped_cards, group_no, card_ct,
                   current_page, pages, group_layouts, out_file>>

\* lines 325-373: one iteration of the loop over the cards of the group
PlaceCard ==
    /\ pc = "place"
    /\ page_layout.valid
    /\ LET card_group == grouped_cards[group_no]
           card == card_group[card_ct + 1]
           position == page_position(card_ct, page_layout)
           row == row_no(position, page_layout)
           col == col_no(position, page_layout)
           new_page == needs_blank_page(card_ct, page_layout)
           with_page == IF new_page
                        THEN Append(pages, BlankPage(page_layout))
                        ELSE pages
           current == IF new_page THEN Len(with_page) ELSE current_page
           tx == translation_x(page_layout, col)
           ty == translation_y(page_layout, row)
           card_page == CardPageAnnots(card.path_to_pdf)
           fixed == [k \in 1..Len(card_page) |->
                        fix_annotation(card_page[k], tx, ty)]
           cell == [card |-> card.path_to_pdf, group |-> group_no,
                    index |-> card_ct, row |-> row, col |-> col,
                    tx |-> tx, ty |-> ty, rotation |-> 0,
                    scale |-> page_layout.card_scale]
       IN  /\ current_page' = current
           /\ pages' = [with_page EXCEPT
                           ![current] = merge_page(@, cell, fixed)]
           /\ IF card_ct + 1 < Len(card_group)
              THEN /\ card_ct' = card_ct + 1
                   /\ UNCHANGED <<pc, group_no>>
              ELSE /\ card_ct' = card_ct + 1
                   /\ group_no' = group_no + 1
                   /\ pc' = "compose"
    /\ UNCHANGED <<paper_size, card_scale, card_dict, original_card_size,
                   page_layout, list_ext, list_exists, card_set, known_cards,
                   unknown_cards, grouped_cards, group_layouts, out_file>>

\* lines 375-376: the output file is written
WriteOutput ==
    /\ pc = "compose"
    /\ group_no > Len(grouped_cards)
    /\ out_file' = [written |-> TRUE, pages |-> pages]
    /\ pc' = "done"
    /\ UNCHANGED <<paper_size, card_scale, card_dict, original_card_size,
                   page_layout, list_ext, list_exists, card_set, known_cards,
                   unknown_cards, grouped_cards, group_no, card_ct,
                   current_page, pages, group_layouts>>

Next ==
    \/ ReadCardList
    \/ NextGroup
    \/ RaiseAttributeError
    \/ PlaceCard
    \/ WriteOutput

Spec == Init /\ [][Next]_vars

(***************************************************************************)
(* determine_page_layout called on its own, on any card size               *)
(***************************************************************************)
LayoutInit ==
    /\ paper_size \in PaperNames
    /\ card_scale \in Scales
    /\ card_dict = Catalog
    /\ pc = "call"
    /\ original_card_size \in CardDims \X CardDims
    /\ page_layout = None
    /\ list_ext = ".txt"
    /\ list_exists = TRUE
    /\ card_set = {}
    /\ known_cards = {}
    /\ unknown_cards = {}
    /\ grouped_cards = <<>>
    /\ group_no = 0
    /\ card_ct = 0
    /\ current_page = 0
    /\ pages = <<>>
    /\ group_layouts = <<>>
    /\ out_file = Untouched

CallDeterminePageLayout ==
    /\ pc = "call"
    /\ page_layout' = determine_page_layout(paper_size, card_scale,
                                            original_card_size)
    /\ pc' = "returned"
    /\ UNCHANGED <<paper_size, card_scale, card_dict, original_card_size,
                   list_ext, list_exists, card_set, known_cards, unknown_cards,
                   grouped_cards, group_no, card_ct, current_page, pages,
                   group_layouts, out_file>>

LayoutNext == CallDeterminePageLayout

LayoutSpec == LayoutInit /\ [][LayoutNext]_vars

(***************************************************************************)
(* Properties of determine_page_layout (checked under LayoutSpec)          *)
(***************************************************************************)
Returned == pc = "returned"

SheetW == PaperSize[paper_size][1]
SheetH == PaperSize[paper_size][2]
CardW == original_card_size[1]
CardH == original_card_size[2]

\* floor(avail / (scale * dim)) with scale = card_scale / ScaleDen
FloorCount(avail, dim) == (avail * ScaleDen) \div (card_scale * dim)

PortraitCount == FloorCount(SheetW - 36, CardW) * FloorCount(SheetH - 54, CardH)
LandscapeCount == FloorCount(SheetH - 54, CardW) * FloorCount(SheetW - 36, CardH)

IsLandscape(layout) == layout.paper_size = <<SheetH, SheetW>>
IsPortrait(layout) == layout.paper_size = <<SheetW, SheetH>>

\* the part of C2 that does not depend on the example
OrientationRule ==
    /\ page_layout.valid <=> (PortraitCount >= 1 \/ LandscapeCount >= 1)
    /\ page_layout.valid =>
         /\ IsLandscape(page_layout) <=> LandscapeCount > PortraitCount
         /\ IsPortrait(page_layout) <=> LandscapeCount <= PortraitCount
         /\ IsLandscape(page_layout) =>
              /\ page_layout.card_cols = FloorCount(SheetH - 54, CardW)
              /\ page_layout.card_rows = FloorCount(SheetW - 36, CardH)
              /\ page_layout.cards_per_page = LandscapeCount
         /\ IsPortrait(page_layout) =>
              /\ page_layout.card_cols = FloorCount(SheetW - 36, CardW)
              /\ page_layout.card_rows = FloorCount(SheetH - 54, CardH)
              /\ page_layout.cards_per_page = PortraitCount
         /\ page_layout.cards_per_page >= PortraitCount
         /\ page_layout.cards_per_page >= LandscapeCount

ExampleCall ==
    /\ paper_size = "LETTER"
    /\ card_scale = ScaleDen
    /\ original_card_size = <<200, 280>>

\* C2 as claimed: landscape is chosen iff its rows*cols is strictly greater
\* than portrait's, the chosen count is never less than the other, the sheet
\* is swapped exactly when landscape is chosen, and a 200x280 card on LETTER
\* at scale 1 gives portrait, 2 columns, 2 rows, 4 cards per sheet.
C2_AsClaimed ==
    Returned =>
      /\ OrientationRule
      /\ ExampleCall =>
           /\ page_layout.valid
           /\ page_layout.paper_size = <<612, 792>>
           /\ page_layout.card_cols = 2
           /\ page_layout.card_rows = 2
           /\ page_layout.cards_per_page = 4

\* C2 amended: the same rule; the 200x280 card on LETTER at scale 1 gives
\* landscape (sheet 792x612), 3 columns, 2 rows, 6 cards per sheet, because
\* the landscape count 3*2 is strictly greater than the portrait count 2*2.
C2_OrientationChoice ==
    Returned =>
      /\ OrientationRule
      /\ ExampleCall =>
           /\ page_layout.valid
           /\ page_layout.paper_size = <<792, 612>>
           /\ page_layout.card_cols = 3
           /\ page_layout.card_rows = 2
           /\ page_layout.cards_per_page = 6

\* a tie between the two orientations, with a layout returned
C2_Witness ==
    /\ Returned
    /\ page_layout.valid
    /\ PortraitCount = LandscapeCount
    /\ PortraitCount >= 2
    /\ IsPortrait(page_layout)

\* C3 as claimed: every returned layout has left_margin >= 18 and
\* bottom_margin >= 36, in either orientation.
C3_AsClaimed ==
    (Returned /\ page_layout.valid) =>
      /\ page_layout.left_margin >= Pt(18)
      /\ page_layout.bottom_margin >= Pt(36)

\* C3 amended: every returned layout has left_margin >= 18; bottom_margin is
\* >= 36 when portrait is chosen and >= 18 when landscape is chosen (the
\* bottom of the rotated sheet is the sheet's left edge).
C3_MarginMinimums ==
    (Returned /\ page_layout.valid) =>
      /\ page_layout.left_margin >= Pt(18)
      /\ IsPortrait(page_layout) => page_layout.bottom_margin >= Pt(36)
      /\ IsLandscape(page_layout) => page_layout.bottom_margin >= Pt(18)

\* a landscape layout whose bottom margin is below the minimum bottom margin
C3_Witness ==
    /\ Returned
    /\ page_layout.valid
    /\ IsLandscape(page_layout)
    /\ page_layout.bottom_margin < Pt(36)
    /\ page_layout.bottom_margin > Pt(18)

\* the gaps between the grid and the four edges of the effective sheet
LeftGap(l) == l.left_margin
RightGap(l) == Pt(l.paper_size[1]) - l.left_margin - l.card_cols * l.card_width
BottomGap(l) == l.bottom_margin
TopGap(l) == Pt(l.paper_size[2]) - l.bottom_margin - l.card_rows * l.card_height

\* C4 as claimed: in either orientation, on the effective sheet,
\* left_margin - 18 = (width - 18 - 18 - cols*card_width)/2 and
\* bottom_margin = 36 + (height - 18 - 36 - rows*card_height)/2.
C4_AsClaimed ==
    (Returned /\ page_layout.valid) =>
      LET l == page_layout IN
      /\ 2 * (l.left_margin - Pt(18)) =
            Pt(l.paper_size[1] - 18 - 18) - l.card_cols * l.card_width
      /\ 2 * (l.bottom_margin - Pt(36)) =
            Pt(l.paper_size[2] - 18 - 36) - l.card_rows * l.card_height
      /\ LeftGap(l) = RightGap(l)

\* C4 amended: in portrait the claim holds as stated.  In landscape the
\* minimum margins turn with the sheet: left_margin - 18 =
\* (width - 18 - 36 - cols*card_width)/2, so the gap right of the grid is 18
\* more than the gap left of it, and bottom_margin = 18 +
\* (height - 18 - 18 - rows*card_height)/2, so the gaps below and above the
\* grid are equal.
C4_Centering ==
    (Returned /\ page_layout.valid) =>
      LET l == page_layout IN
      /\ IsPortrait(l) =>
           /\ 2 * (l.left_margin - Pt(18)) =
                 Pt(l.paper_size[1] - 18 - 18) - l.card_cols * l.card_width
           /\ 2 * (l.bottom_margin - Pt(36)) =
                 Pt(l.paper_size[2] - 18 - 36) - l.card_rows * l.card_height
           /\ LeftGap(l) = RightGap(l)
           /\ BottomGap(l) = TopGap(l) + Pt(18)
      /\ IsLandscape(l) =>
           /\ 2 * (l.left_margin - Pt(18)) =
                 Pt(l.paper_size[1] - 18 - 36) - l.card_cols * l.card_width
           /\ 2 * (l.bottom_margin - Pt(18)) =
                 Pt(l.paper_size[2] - 18 - 18) - l.card_rows * l.card_height
           /\ RightGap(l) = LeftGap(l) + Pt(18)
           /\ BottomGap(l) = TopGap(l)

\* a landscape layout with room left over on both axes
C4_Witness ==
    /\ Returned
    /\ page_layout.valid
    /\ IsLandscape(page_layout)
    /\ page_layout.left_margin > Pt(18)
    /\ page_layout.bottom_margin > Pt(18)
    /\ page_layout.card_cols >= 2

\* C10: for every returned layout and every cell of its grid, the placed
\* card's rectangle lies inside the effective sheet with at least 18 points
\* of clearance on all four sides.
C10_CardsInsideSheet ==
    (Returned /\ page_layout.valid) =>
      LET l == page_layout IN
      \A row \in 0..(l.card_rows - 1) : \A col \in 0..(l.card_cols - 1) :
         LET tx == translation_x(l, col)
             ty == translation_y(l, row)
         IN  /\ tx >= Pt(18)
             /\ tx + l.card_width <= Pt(l.paper_size[1] - 18)
             /\ ty >= Pt(18)
             /\ ty + l.card_height <= Pt(l.paper_size[2] - 18)

\* a landscape grid of several rows and columns whose top row ends less
\* than 27 points below the top edge
C10_Witness ==
    /\ Returned
    /\ page_layout.valid
    /\ IsLandscape(page_layout)
    /\ page_layout.card_rows >= 2
    /\ page_layout.card_cols >= 2
    /\ TopGap(page_layout) < Pt(27)

(***************************************************************************)
(* Properties of create_cards_file (checked under Spec)                    *)
(***************************************************************************)
Terminated == pc \in {"done", "quit", "crashed"}

PageIndexes == 1..Len(pages)

\* the files of the cards drawn on a sequence of pages
CardsOn(pp) == UNION {{pp[p].cells[j].card : j \in 1..Len(pp[p].cells)} :
                         p \in 1..Len(pp)}

GroupFiles(g) == {grouped_cards[g][i].path_to_pdf : i \in 1..Len(grouped_cards[g])}

\* one card of group g fits inside the minimum margins, upright on the
\* sheet or on the sheet turned by 90 degrees (lengths times ScaleDen)
Feasible(g) ==
    LET w == card_scale * grouped_cards[g][1].card_size[1]
        h == card_scale * grouped_cards[g][1].card_size[2]
        sw == PaperSize[paper_size][1]
        sh == PaperSize[paper_size][2]
    IN  \/ w <= (sw - 36) * ScaleDen /\ h <= (sh - 54) * ScaleDen
        \/ w <= (sh - 54) * ScaleDen /\ h <= (sw - 36) * ScaleDen

\* C1: when a size-group does not fit, it is skipped and contributes no
\* sheets, composition continues with the remaining groups, and the job
\* completes and writes the output document with the sheets of every
\* feasible group.
C1_InfeasibleGroupSkipped ==
    (Terminated /\ grouped_cards # <<>>
        /\ \E g \in 1..Len(grouped_cards) : ~Feasible(g)) =>
      /\ pc = "done"
      /\ out_file.written
      /\ \A g \in 1..Len(grouped_cards) :
            IF Feasible(g)
            THEN GroupFiles(g) \subseteq CardsOn(out_file.pages)
            ELSE GroupFiles(g) \cap CardsOn(out_file.pages) = {}

\* the group a page belongs to (that of its first card)
PageGroup(p) == pages[p].cells[1].group

PagesOf(g) == {p \in PageIndexes : PageGroup(p) = g}

\* the number of cards of group g placed so far
Placed(g) ==
    IF g < group_no THEN Len(grouped_cards[g])
    ELSE IF g = group_no /\ pc = "place" THEN card_ct
    ELSE 0

CeilDiv(n, k) == (n + k - 1) \div k

\* C5: in a group with a layout of k cards per sheet a blank sheet of the
\* layout's dimensions is allocated exactly when i mod k = 0: after n cards
\* the group has ceil(n/k) sheets, card i is on the group's sheet floor(i/k),
\* no sheet holds more than k cards, and no sheet holds cards of two groups.
C5_SheetAllocation ==
    /\ \A p \in PageIndexes :
          LET cells == pages[p].cells
              g == PageGroup(p)
              l == group_layouts[g]
              first == CHOOSE q \in PagesOf(g) : \A r \in PagesOf(g) : q <= r
          IN  /\ Len(cells) >= 1
              /\ l.valid
              /\ Len(cells) <= l.cards_per_page
              /\ pages[p].paper_size = l.paper_size
              /\ \A j \in 1..Len(cells) :
                    /\ cells[j].group = g
                    /\ cells[j].index \div l.cards_per_page = p - first
                    /\ cells[j].index % l.cards_per_page = j - 1
    /\ \A g \in 1..Len(group_layouts) :
          group_layouts[g].valid =>
             Cardinality(PagesOf(g)) =
                CeilDiv(Placed(g), group_layouts[g].cards_per_page)

\* five cards of one group at four cards per sheet: two sheets, the second
\* holding one card at row 0, column 0
C5_Witness ==
    /\ pc = "done"
    /\ Len(grouped_cards) = 1
    /\ Len(grouped_cards[1]) = 5
    /\ group_layouts[1].cards_per_page = 4
    /\ Len(pages) = 2
    /\ Len(pages[1].cells) = 4
    /\ Len(pages[2].cells) = 1
    /\ pages[2].cells[1].row = 0
    /\ pages[2].cells[1].col = 0

\* C6: the card at index i, cellIndex = i mod cardsPerSheet, gets
\* row = cellIndex div columns, col = cellIndex mod columns,
\* tx = leftMargin + col*cardWidth, ty = bottomMargin + row*cardHeight: a
\* sheet is filled row-major from the bottom-left, row < rows, col < columns,
\* no two cards of a sheet share a cell, and the cell depends only on the
\* index and the layout.
C6_CellAssignment ==
    /\ \A p \in PageIndexes :
          LET cells == pages[p].cells
              l == group_layouts[PageGroup(p)]
          IN  /\ \A j \in 1..Len(cells) :
                    LET c == cells[j] IN
                    /\ c.row >= 0 /\ c.row < l.card_rows
                    /\ c.col >= 0 /\ c.col < l.card_cols
                    /\ c.row * l.card_cols + c.col = j - 1
                    /\ c.tx = l.left_margin + c.col * l.card_width
                    /\ c.ty = l.bottom_margin + c.row * l.card_height
                    /\ c.scale = l.card_scale
                    /\ c.rotation = 0
              /\ \A i, j \in 1..Len(cells) :
                    (i # j) => <<cells[i].row, cells[i].col>> #
                               <<cells[j].row, cells[j].col>>
    /\ \A p, q \in PageIndexes :
          PageGroup(p) = PageGroup(q) =>
             \A j \in 1..Len(pages[p].cells) :
                j <= Len(pages[q].cells) =>
                   LET c == pages[p].cells[j]
                       d == pages[q].cells[j]
                   IN  <<c.row, c.col, c.tx, c.ty>> = <<d.row, d.col, d.tx, d.ty>>

\* a full sheet of a grid with different numbers of rows and columns, and a
\* second sheet of the same group
C6_Witness ==
    \E p, q \in PageIndexes :
       /\ p # q
       /\ PageGroup(p) = PageGroup(q)
       /\ group_layouts[PageGroup(p)].card_rows # group_layouts[PageGroup(p)].card_cols
       /\ group_layouts[PageGroup(p)].card_rows >= 2
       /\ Len(pages[p].cells) = group_layouts[PageGroup(p)].cards_per_page

\* the cell of page p the card file was drawn in
CellOf(p, file) ==
    LET cells == pages[p].cells
    IN  cells[CHOOSE j \in 1..Len(cells) : cells[j].card = file]

SumLen(cells) ==
    LET F[j \in 0..Len(cells)] ==
          IF j = 0 THEN 0
          ELSE F[j - 1] + Len(CardPageAnnots(cells[j].card))
    IN  F[Len(cells)]

\* C7: every annotation with a rectangle (x0,y0,x1,y1) of a card placed at
\* (tx, ty) is attached to the merged sheet with the rectangle
\* (x0+tx, y0+ty, x1+tx, y1+ty), of unchanged width and height, and with the
\* open flag false, (tx, ty) being that of the card's own cell; the rectangle
\* (10,10,50,30) at tx = 36, ty = 54 becomes (46,64,86,84).
C7_AnnotationsFollowCard ==
    \A p \in PageIndexes :
       /\ Len(pages[p].annots) = SumLen(pages[p].cells)
       /\ \A m \in Range(pages[p].annots) :
             LET orig == CardPageAnnots(m.src[1])[m.src[2]]
                 c == CellOf(p, m.src[1])
                 r == m.annot.rect
                 o == orig.rect
             IN  /\ m.src[1] \in {pages[p].cells[j].card :
                                     j \in 1..Len(pages[p].cells)}
                 /\ orig.has_rect =>
                      /\ r = <<o[1] + c.tx, o[2] + c.ty, o[3] + c.tx, o[4] + c.ty>>
                      /\ r[3] - r[1] = o[3] - o[1]
                      /\ r[4] - r[2] = o[4] - o[2]
                      /\ m.annot.open = "false"
                      /\ (o = <<Pt(10), Pt(10), Pt(50), Pt(30)>>
                            /\ c.tx = Pt(36) /\ c.ty = Pt(54)) =>
                           r = <<Pt(46), Pt(64), Pt(86), Pt(84)>>

\* the rectangle (10,10,50,30), open before the merge, on a card placed at
\* tx = 36, ty = 54, and on the same sheet an annotation of a card in
\* another cell
C7_Witness ==
    \E p \in PageIndexes :
       /\ \E m \in Range(pages[p].annots) :
             /\ CardPageAnnots(m.src[1])[m.src[2]] =
                   Annot(TRUE, <<Pt(10), Pt(10), Pt(50), Pt(30)>>, "true")
             /\ CellOf(p, m.src[1]).tx = Pt(36)
             /\ CellOf(p, m.src[1]).ty = Pt(54)
       /\ \E m \in Range(pages[p].annots) :
             /\ CardPageAnnots(m.src[1])[m.src[2]].has_rect
             /\ CellOf(p, m.src[1]).row >= 1
             /\ CellOf(p, m.src[1]).col >= 1

Grouped == pc \in {"compose", "place", "done", "crashed"}

\* C8: group_cards_by_sizes returns a partition of its input: every input
\* card is in exactly one group, the groups hold nothing else, no group is
\* empty, a group's cards have one size, and two groups never the same size.
C8_GroupingIsPartition ==
    Grouped =>
      LET G == 1..Len(grouped_cards) IN
      /\ \A name \in known_cards :
            Cardinality({<<g, i>> \in G \X (1..Cardinality(known_cards)) :
                            /\ i <= Len(grouped_cards[g])
                            /\ grouped_cards[g][i] = card_dict[name]}) = 1
      /\ \A g \in G :
            /\ Len(grouped_cards[g]) >= 1
            /\ Range(grouped_cards[g]) \subseteq {card_dict[n] : n \in known_cards}
            /\ \A i, j \in 1..Len(grouped_cards[g]) :
                  grouped_cards[g][i].card_size = grouped_cards[g][j].card_size
      /\ \A g, k \in G :
            (g # k) => grouped_cards[g][1].card_size # grouped_cards[k][1].card_size

\* three groups, two of them of cards of the same width, one of several cards
C8_Witness ==
    /\ Grouped
    /\ Len(grouped_cards) = 3
    /\ \E g, k \in 1..Len(grouped_cards) :
          /\ g # k
          /\ grouped_cards[g][1].card_size[1] = grouped_cards[k][1].card_size[1]
          /\ Len(grouped_cards[g]) >= 2

Fatal ==
    \/ list_ext # ".txt"
    \/ ~list_exists
    \/ card_set \cap DOMAIN card_dict = {}

\* C9: the output file is written only as the last step, after every group
\* has been composed; with a list path not ending in .txt, a missing list
\* file or no requested name in the catalog the run ends without touching
\* the output file; unmatched names alone do not end the run and contribute
\* no cards.
C9_OutputWrittenLast ==
    /\ out_file.written <=> pc = "done"
    /\ ~out_file.written => out_file = Untouched
    /\ out_file.written =>
         /\ ~Fatal
         /\ group_no = Len(grouped_cards) + 1
         /\ out_file.pages = pages
         /\ CardsOn(out_file.pages) =
               {card_dict[n].path_to_pdf : n \in card_set \cap DOMAIN card_dict}
    /\ Fatal => (pc \in {"start", "quit"} /\ pages = <<>>)
    /\ pc = "quit" => Fatal

\* a finished run whose list held a name that is in no catalog
C9_Witness ==
    /\ pc = "done"
    /\ out_file.written
    /\ unknown_cards # {}
    /\ Len(out_file.pages) >= 2

====
